---- MODULE Spec2Model ----
(***************************************************************************)
(* Inverted index library (HW03 revision): build_inverted_index,           *)
(* InvertedIndex.query / dump / load with the json and struct strategies.  *)
(*                                                                         *)
(* Texts, terms and file contents are sequences of byte values (ASCII      *)
(* codes), so that the json and struct encodings are computed byte by byte *)
(* and decoded by a parser, as the code does.  A Python dict is a sequence *)
(* of [key, value] entries with distinct keys, in insertion order.         *)
(***************************************************************************)
EXTENDS Integers, Sequences, FiniteSets, TLC

VARIABLES
    inverted_index,  \* the InvertedIndex instance under use: [type, items]
    files,           \* the file system: path -> [exists, bytes, origin, cut]
    op               \* the last call: its name, arguments, result, exception, stderr

vars == <<inverted_index, files, op>>

-----------------------------------------------------------------------------
(* Bounds of the model *)

MaxTextLen == 3
MaxQueryLen == 2
MaxBatchLen == 2

(* Largest value of struct format "H" (unsigned short) *)
USHORT_MAX == 65535

(* Characters of the texts: "a", "b" are word characters, " " is not *)
Alphabet == {97, 98, 32}

(* Document identifiers: of the builder's inputs, and of a session with files
   (a negative one, a small one and the two around the "H" limit) *)
DocIds == {1, 2}
SessionDocIds == {0 - 1, 1, 65535, 65536}

Paths == {"index.dump", ""}
Strategies == {"json", "struct"}

-----------------------------------------------------------------------------
(* Generic helpers for sequences, sets and dicts *)

Range(s) == {s[i] : i \in 1..Len(s)}

NoDup(s) == \A i, j \in 1..Len(s) : i # j => s[i] # s[j]

SeqsUpTo(S, n) == UNION {[1..k -> S] : k \in 0..n}

\* All the orders in which the elements of a set can be listed
Perms(S) == {s \in [1..Cardinality(S) -> S] : Range(s) = S}

Keys(d) == {d[i].key : i \in 1..Len(d)}

\* `word in d`
DictHas(d, k) == \E i \in 1..Len(d) : d[i].key = k

\* `d.get(word)` / `d[key]` for a key that is present
DictGet(d, k) == d[CHOOSE i \in 1..Len(d) : d[i].key = k].value

\* `d[key] = value`: replaces the value of a present key, appends a new key
DictSet(d, k, v) ==
    IF DictHas(d, k)
    THEN [i \in 1..Len(d) |-> IF d[i].key = k THEN [key |-> k, value |-> v] ELSE d[i]]
    ELSE Append(d, [key |-> k, value |-> v])

-----------------------------------------------------------------------------
(* re.split(r"\W+", value) *)

\* \w on ASCII: digits, letters, underscore
IsWordChar(c) ==
    \/ c \in 48..57
    \/ c \in 65..90
    \/ c = 95
    \/ c \in 97..122

\* The scan of re.split: `cur` is the piece since the last separator match,
\* a maximal run of non-word characters is one match and ends the piece.
RECURSIVE SplitFrom(_, _, _, _)
SplitFrom(s, i, cur, out) ==
    IF i > Len(s) THEN Append(out, cur)
    ELSE IF IsWordChar(s[i]) THEN SplitFrom(s, i + 1, Append(cur, s[i]), out)
    ELSE IF i < Len(s) /\ ~IsWordChar(s[i + 1]) THEN SplitFrom(s, i + 1, cur, out)
    ELSE SplitFrom(s, i + 1, <<>>, Append(out, cur))

\* Faulty variant: the empty pieces left out
re_split_nonempty(value) ==
    SelectSeq(SplitFrom(value, 1, <<>>, <<>>), LAMBDA piece : piece # <<>>)

re_split(value) == SplitFrom(value, 1, <<>>, <<>>)

-----------------------------------------------------------------------------
(* build_inverted_index *)

\* Faulty variant: a word seen before gets a new set with the one document
RECURSIVE AddWordsOverwriting(_, _, _, _)
AddWordsOverwriting(inverted_data, words, i, key) ==
    IF i > Len(words) THEN inverted_data
    ELSE AddWordsOverwriting(DictSet(inverted_data, words[i], {key}), words, i + 1, key)

\* The inner loop: each word of one document adds the document's key to its set
RECURSIVE AddWords(_, _, _, _)
AddWords(inverted_data, words, i, key) ==
    IF i > Len(words) THEN inverted_data
    ELSE LET word == words[i]
             next == IF DictHas(inverted_data, word)
                     THEN DictSet(inverted_data, word,
                                  DictGet(inverted_data, word) \cup {key})
                     ELSE DictSet(inverted_data, word, {key})
         IN AddWords(next, words, i + 1, key)

\* The outer loop over documents.items(): term -> set of keys
RECURSIVE AddDocuments(_, _, _)
AddDocuments(inverted_data, documents, i) ==
    IF i > Len(documents) THEN inverted_data
    ELSE AddDocuments(
             AddWords(inverted_data, re_split(documents[i].value), 1, documents[i].key),
             documents, i + 1)

\* Faulty variant: a list that repeats its first element
list_of_set_repeating(S) == {l \o <<l[1]>> : l \in Perms(S)}

\* list(value) of a set: the order of the elements is the set's iteration
\* order, which the language leaves open; every order is a possible result.
list_of_set(S) == Perms(S)

\* The second loop: every set replaced by a list of its elements
RECURSIVE Listings(_, _)
Listings(inverted_data, i) ==
    IF i > Len(inverted_data) THEN {<<>>}
    ELSE LET rest == Listings(inverted_data, i + 1)
         IN {<<[key |-> inverted_data[i].key, value |-> l]>> \o r :
                l \in list_of_set(inverted_data[i].value), r \in rest}

\* An InvertedIndex instance: the type of its data and, for a dict, the entries
InvertedIndex(data) == [type |-> "dict", items |-> data]

\* InvertedIndex(set()): data that is no dict (not json-serializable)
InvertedIndexOfSet == [type |-> "set", items |-> <<>>]

\* The possible return values of build_inverted_index(documents)
build_inverted_index(documents) ==
    {InvertedIndex(d) : d \in Listings(AddDocuments(<<>>, documents, 1), 1)}

-----------------------------------------------------------------------------
(* json: the encoder, on the shapes the program gives it *)

RECURSIVE Digits(_)
Digits(n) == IF n < 10 THEN <<48 + n>> ELSE Digits(n \div 10) \o <<48 + (n % 10)>>

\* an int: decimal digits, "-" first for a negative one
JsonInt(n) == IF n < 0 THEN <<45>> \o Digits(0 - n) ELSE Digits(n)

\* a str of word characters: the characters between double quotes
JsonStr(t) == <<34>> \o t \o <<34>>

\* a list of ints: [1, 2, 3]
RECURSIVE JsonIntsFrom(_, _)
JsonIntsFrom(l, i) ==
    IF i > Len(l) THEN <<>>
    ELSE (IF i > 1 THEN <<44, 32>> ELSE <<>>) \o JsonInt(l[i]) \o JsonIntsFrom(l, i + 1)

JsonIntList(l) == <<91>> \o JsonIntsFrom(l, 1) \o <<93>>

\* json.dumps(pairs) of a list of (key, count) tuples: [["a", 1], ["b", 2]]
RECURSIVE JsonPairsFrom(_, _)
JsonPairsFrom(pairs, i) ==
    IF i > Len(pairs) THEN <<>>
    ELSE (IF i > 1 THEN <<44, 32>> ELSE <<>>)
         \o <<91>> \o JsonStr(pairs[i][1]) \o <<44, 32>> \o JsonInt(pairs[i][2]) \o <<93>>
         \o JsonPairsFrom(pairs, i + 1)

json_dumps_pairs(pairs) == <<91>> \o JsonPairsFrom(pairs, 1) \o <<93>>

\* json.dump(dict) of a dict of str -> list of ints: {"a": [1, 2], "b": [3]}
RECURSIVE JsonMembersFrom(_, _)
JsonMembersFrom(d, i) ==
    IF i > Len(d) THEN <<>>
    ELSE (IF i > 1 THEN <<44, 32>> ELSE <<>>)
         \o JsonStr(d[i].key) \o <<58, 32>> \o JsonIntList(d[i].value)
         \o JsonMembersFrom(d, i + 1)

json_dump_dict(d) == <<123>> \o JsonMembersFrom(d, 1) \o <<125>>

-----------------------------------------------------------------------------
(* json: the decoder.  It accepts the documents the encoder above writes;    *)
(* every other byte sequence the model can hold in a file (a proper prefix   *)
(* of such a document, a struct file) is no json document either, and        *)
(* json.load raises JSONDecodeError on it.  A parse result is                *)
(* [ok, val, pos]: pos is the index of the first byte not consumed.          *)

Fail == [ok |-> FALSE, val |-> <<>>, pos |-> 0]

At(b, i, c) == i <= Len(b) /\ b[i] = c

IsDigit(b, i) == i <= Len(b) /\ b[i] \in 48..57

RECURSIVE ParseDigits(_, _, _)
ParseDigits(b, i, acc) ==
    IF IsDigit(b, i) THEN ParseDigits(b, i + 1, 10 * acc + (b[i] - 48))
    ELSE [ok |-> TRUE, val |-> acc, pos |-> i]

ParseInt(b, i) ==
    IF At(b, i, 45)
    THEN IF IsDigit(b, i + 1)
         THEN LET r == ParseDigits(b, i + 1, 0)
              IN [ok |-> TRUE, val |-> 0 - r.val, pos |-> r.pos]
         ELSE Fail
    ELSE IF IsDigit(b, i) THEN ParseDigits(b, i, 0)
    ELSE Fail

RECURSIVE ParseChars(_, _, _)
ParseChars(b, i, acc) ==
    IF i > Len(b) THEN Fail
    ELSE IF b[i] = 34 THEN [ok |-> TRUE, val |-> acc, pos |-> i + 1]
    ELSE IF b[i] < 32 \/ b[i] = 92 \/ b[i] > 127 THEN Fail
    ELSE ParseChars(b, i + 1, Append(acc, b[i]))

ParseStr(b, i) == IF At(b, i, 34) THEN ParseChars(b, i + 1, <<>>) ELSE Fail

\* after an element of a list: "]" ends it, ", " announces the next element
RECURSIVE ParseIntsTail(_, _, _)
ParseIntsTail(b, i, acc) ==
    IF At(b, i, 93) THEN [ok |-> TRUE, val |-> acc, pos |-> i + 1]
    ELSE IF At(b, i, 44) /\ At(b, i + 1, 32)
    THEN LET r == ParseInt(b, i + 2)
         IN IF r.ok THEN ParseIntsTail(b, r.pos, Append(acc, r.val)) ELSE Fail
    ELSE Fail

ParseIntList(b, i) ==
    IF ~At(b, i, 91) THEN Fail
    ELSE IF At(b, i + 1, 93) THEN [ok |-> TRUE, val |-> <<>>, pos |-> i + 2]
    ELSE LET r == ParseInt(b, i + 1)
         IN IF r.ok THEN ParseIntsTail(b, r.pos, <<r.val>>) ELSE Fail

\* ["term", count]
ParsePair(b, i) ==
    IF ~At(b, i, 91) THEN Fail
    ELSE LET k == ParseStr(b, i + 1)
         IN IF ~(k.ok /\ At(b, k.pos, 44) /\ At(b, k.pos + 1, 32)) THEN Fail
            ELSE LET n == ParseInt(b, k.pos + 2)
                 IN IF n.ok /\ At(b, n.pos, 93)
                    THEN [ok |-> TRUE, val |-> <<k.val, n.val>>, pos |-> n.pos + 1]
                    ELSE Fail

RECURSIVE ParsePairsTail(_, _, _)
ParsePairsTail(b, i, acc) ==
    IF At(b, i, 93) THEN [ok |-> TRUE, val |-> acc, pos |-> i + 1]
    ELSE IF At(b, i, 44) /\ At(b, i + 1, 32)
    THEN LET r == ParsePair(b, i + 2)
         IN IF r.ok THEN ParsePairsTail(b, r.pos, Append(acc, r.val)) ELSE Fail
    ELSE Fail

\* json.loads(header): the whole text must be one list of pairs
json_loads_pairs(b) ==
    LET r == IF ~At(b, 1, 91) THEN Fail
             ELSE IF At(b, 2, 93) THEN [ok |-> TRUE, val |-> <<>>, pos |-> 3]
             ELSE LET p == ParsePair(b, 2)
                  IN IF p.ok THEN ParsePairsTail(b, p.pos, <<p.val>>) ELSE Fail
    IN IF r.ok /\ r.pos = Len(b) + 1 THEN r ELSE Fail

\* "key": [ints]
ParseMember(b, i) ==
    LET k == ParseStr(b, i)
    IN IF ~(k.ok /\ At(b, k.pos, 58) /\ At(b, k.pos + 1, 32)) THEN Fail
       ELSE LET l == ParseIntList(b, k.pos + 2)
            IN IF l.ok THEN [ok |-> TRUE, val |-> [key |-> k.val, value |-> l.val],
                             pos |-> l.pos]
               ELSE Fail

\* the decoder fills a dict: a repeated key keeps its place and takes the last value
RECURSIVE ParseMembersTail(_, _, _)
ParseMembersTail(b, i, acc) ==
    IF At(b, i, 125) THEN [ok |-> TRUE, val |-> acc, pos |-> i + 1]
    ELSE IF At(b, i, 44) /\ At(b, i + 1, 32)
    THEN LET r == ParseMember(b, i + 2)
         IN IF r.ok THEN ParseMembersTail(b, r.pos, DictSet(acc, r.val.key, r.val.value))
            ELSE Fail
    ELSE Fail

\* json.load(fin): the whole text must be one object of str -> list of ints
json_load_dict(b) ==
    LET r == IF ~At(b, 1, 123) THEN Fail
             ELSE IF At(b, 2, 125) THEN [ok |-> TRUE, val |-> <<>>, pos |-> 3]
             ELSE LET m == ParseMember(b, 2)
                  IN IF m.ok THEN ParseMembersTail(b, m.pos, <<m.val>>) ELSE Fail
    IN IF r.ok /\ r.pos = Len(b) + 1 THEN r ELSE Fail

-----------------------------------------------------------------------------
(* struct: formats "I" (4 bytes), "<n>s" and "<n>H" (2 bytes each), in the   *)
(* byte order of the machine (little-endian)                                 *)

\* struct.pack("I", size)
pack_I(size) ==
    <<size % 256, (size \div 256) % 256, (size \div 65536) % 256,
      (size \div 16777216) % 256>>

\* struct.unpack("I", b) of exactly 4 bytes
unpack_I(b) == b[1] + 256 * b[2] + 65536 * b[3] + 16777216 * b[4]

\* Faulty variant: no range check: the value is packed modulo 2^16
FitsH_wrapping(doc_id) == TRUE

\* whether struct.pack accepts a value for format "H"
FitsH(doc_id) == doc_id >= 0 /\ doc_id <= USHORT_MAX

\* struct.pack(f"{len(doc_ids)}H", *doc_ids), every value accepted
RECURSIVE pack_H(_, _)
pack_H(doc_ids, i) ==
    IF i > Len(doc_ids) THEN <<>>
    ELSE <<doc_ids[i] % 256, doc_ids[i] \div 256>> \o pack_H(doc_ids, i + 1)

\* Faulty variant: the values read in the other byte order
unpack_H_swapped(b) == [i \in 1..(Len(b) \div 2) |-> 256 * b[2 * i - 1] + b[2 * i]]

\* struct.unpack(f"{n}H", b) of exactly 2 * n bytes
unpack_H(b) == [i \in 1..(Len(b) \div 2) |-> b[2 * i - 1] + 256 * b[2 * i]]

-----------------------------------------------------------------------------
(* The file system.  A file is [exists, bytes]; the other fields record its  *)
(* history: `origin` is the strategy of the dump that opened it last,        *)
(* `complete` whether that dump wrote all it had to write, `cut` whether the *)
(* file was truncated afterwards.                                            *)

NoFile ==
    [exists |-> FALSE, bytes |-> <<>>, origin |-> "none", complete |-> FALSE,
     cut |-> FALSE]

File(bytes, origin, complete) ==
    [exists |-> TRUE, bytes |-> bytes, origin |-> origin, complete |-> complete,
     cut |-> FALSE]

\* open(filepath, ...): the empty path names no file, for reading or writing
CanOpen(filepath) == filepath # ""

NoStderr == <<>>

-----------------------------------------------------------------------------
(* InvertedIndex.dump.  The result is the file system afterwards, the        *)
(* exception that leaves dump ("" when it returns None) and what it printed  *)
(* on stderr.                                                                *)

\* the loop over inverted_index.items(): pairs (key, len(value)) and all doc ids
RECURSIVE HeaderPairs(_, _)
HeaderPairs(d, i) ==
    IF i > Len(d) THEN <<>>
    ELSE <<<<d[i].key, Len(d[i].value)>>>> \o HeaderPairs(d, i + 1)

RECURSIVE FlatDocIds(_, _)
FlatDocIds(d, i) ==
    IF i > Len(d) THEN <<>> ELSE d[i].value \o FlatDocIds(d, i + 1)

\* the size prefix and the header, the two writes that come first
StructHead(d) ==
    LET header == json_dumps_pairs(HeaderPairs(d, 1))
    IN pack_I(Len(header)) \o header

\* Faulty variant: the exception raised again
DumpCaughtRaising(fs) == [files |-> fs, raised |-> "FileNotFoundError", stderr |-> NoStderr]

\* the handler of FileNotFoundError and TypeError in dump: a message, None returned
DumpCaught(fs) == [files |-> fs, raised |-> "", stderr |-> <<"Input valid filepath">>]

dump_json(self, filepath, fs) ==
    IF ~CanOpen(filepath) THEN DumpCaught(fs)
    ELSE IF self.type # "dict"
    THEN \* json.dump raises TypeError before the first byte; the file is open and empty
         DumpCaught([fs EXCEPT ![filepath] = File(<<>>, "json", FALSE)])
    ELSE [files |-> [fs EXCEPT ![filepath] =
                        File(json_dump_dict(self.items), "json", TRUE)],
          raised |-> "", stderr |-> NoStderr]

\* Faulty variant: everything packed before the first write
dump_struct_packing_first(self, filepath, fs) ==
    IF ~CanOpen(filepath) THEN DumpCaught(fs)
    ELSE IF self.type # "dict"
    THEN [files |-> [fs EXCEPT ![filepath] = File(<<>>, "struct", FALSE)],
          raised |-> "AttributeError", stderr |-> NoStderr]
    ELSE LET doc_ids == FlatDocIds(self.items, 1)
         IN IF \A i \in 1..Len(doc_ids) : FitsH(doc_ids[i])
            THEN [files |-> [fs EXCEPT ![filepath] =
                                File(StructHead(self.items) \o pack_H(doc_ids, 1),
                                     "struct", TRUE)],
                  raised |-> "", stderr |-> NoStderr]
            ELSE [files |-> [fs EXCEPT ![filepath] = File(<<>>, "struct", FALSE)],
                  raised |-> "struct.error", stderr |-> NoStderr]

dump_struct(self, filepath, fs) ==
    IF ~CanOpen(filepath) THEN DumpCaught(fs)
    ELSE IF self.type # "dict"
    THEN \* .items() raises AttributeError, which dump does not catch
         [files |-> [fs EXCEPT ![filepath] = File(<<>>, "struct", FALSE)],
          raised |-> "AttributeError", stderr |-> NoStderr]
    ELSE LET doc_ids == FlatDocIds(self.items, 1)
             head == StructHead(self.items)
         IN IF \A i \in 1..Len(doc_ids) : FitsH(doc_ids[i])
            THEN [files |-> [fs EXCEPT ![filepath] =
                                File(head \o pack_H(doc_ids, 1), "struct", TRUE)],
                  raised |-> "", stderr |-> NoStderr]
            ELSE \* struct.pack raises struct.error, which dump does not catch;
                 \* the prefix and the header are written
                 [files |-> [fs EXCEPT ![filepath] = File(head, "struct", FALSE)],
                  raised |-> "struct.error", stderr |-> NoStderr]

dump(self, filepath, strategy, fs) ==
    IF strategy = "json" THEN dump_json(self, filepath, fs)
    ELSE dump_struct(self, filepath, fs)

-----------------------------------------------------------------------------
(* InvertedIndex.load.  The result is the exception that leaves load ("" when *)
(* it returns), the instance returned and what it printed on stderr.          *)

LoadRaised(exc) == [raised |-> exc, ret |-> InvertedIndex(<<>>), stderr |-> NoStderr]

LoadReturned(data) == [raised |-> "", ret |-> InvertedIndex(data), stderr |-> NoStderr]

\* Faulty variant: a missing file raises
LoadNotFoundRaising(filepath) ==
    [raised |-> "FileNotFoundError", ret |-> InvertedIndex(<<>>), stderr |-> NoStderr]

\* the handler of FileNotFoundError in load: a message, an empty index returned
LoadNotFound(filepath) ==
    [raised |-> "", ret |-> InvertedIndex(<<>>), stderr |-> <<filepath, " not found!">>]

\* Faulty variant: a short read gives the values that are there
RECURSIVE ReadValuesLenient(_, _, _, _, _)
ReadValuesLenient(b, pos, header, i, acc) ==
    IF i > Len(header) THEN LoadReturned(acc)
    ELSE LET calcsize == 2 * header[i][2]
             last == IF pos + calcsize - 1 > Len(b) THEN Len(b) ELSE pos + calcsize - 1
         IN ReadValuesLenient(b, last + 1, header, i + 1,
                              DictSet(acc, header[i][1], unpack_H(SubSeq(b, pos, last))))

\* the loop over the header: item[1] values of 2 bytes for each item
RECURSIVE ReadValues(_, _, _, _, _)
ReadValues(b, pos, header, i, acc) ==
    IF i > Len(header) THEN LoadReturned(acc)
    ELSE LET values_to_read == header[i][2]
             calcsize == 2 * values_to_read
         IN IF values_to_read < 0 \/ Len(b) - pos + 1 < calcsize
            THEN LoadRaised("struct.error")
            ELSE ReadValues(b, pos + calcsize, header, i + 1,
                            DictSet(acc, header[i][1],
                                    unpack_H(SubSeq(b, pos, pos + calcsize - 1))))

load_struct(b) ==
    IF Len(b) < 4 THEN LoadRaised("struct.error")
    ELSE LET header_size == unpack_I(SubSeq(b, 1, 4))
         IN IF Len(b) - 4 < header_size THEN LoadRaised("struct.error")
            ELSE LET header == json_loads_pairs(SubSeq(b, 5, 4 + header_size))
                 IN IF ~header.ok THEN LoadRaised("ValueError")
                    ELSE ReadValues(b, 5 + header_size, header.val, 1, <<>>)

load_json(b) ==
    LET r == json_load_dict(b)
    IN IF r.ok THEN LoadReturned(r.val) ELSE LoadRaised("ValueError")

load(filepath, strategy, fs) ==
    IF ~(CanOpen(filepath) /\ fs[filepath].exists) THEN LoadNotFound(filepath)
    ELSE IF strategy = "json" THEN load_json(fs[filepath].bytes)
    ELSE load_struct(fs[filepath].bytes)

-----------------------------------------------------------------------------
(* InvertedIndex.query *)

\* the set one word contributes to the intersection
WordSet(self, word) ==
    IF self.type = "dict" /\ DictHas(self.items, word)
       /\ Len(DictGet(self.items, word)) > 0
    THEN Range(DictGet(self.items, word))
    ELSE {}

\* Faulty variant: the fold with union in place of intersection
RECURSIVE ReduceUnion(_, _, _)
ReduceUnion(acc, sets, i) ==
    IF i > Len(sets) THEN acc ELSE ReduceUnion(acc \cup sets[i], sets, i + 1)

\* Faulty variant: the fold with difference in place of intersection
RECURSIVE ReduceDifference(_, _, _)
ReduceDifference(acc, sets, i) ==
    IF i > Len(sets) THEN acc ELSE ReduceDifference(acc \ sets[i], sets, i + 1)

\* reduce(set.intersection, sets): folded from the left
RECURSIVE Reduce(_, _, _)
Reduce(acc, sets, i) ==
    IF i > Len(sets) THEN acc ELSE Reduce(acc \cap sets[i], sets, i + 1)

\* Faulty variant: words that are no key of the index are left out of the intersection
query_skipping_unknown(self, words) ==
    LET known == SelectSeq(words, LAMBDA w : self.type = "dict" /\ DictHas(self.items, w))
    IN IF Len(known) > 0
       THEN LET sets == [i \in 1..Len(known) |-> WordSet(self, known[i])]
            IN list_of_set(Reduce(sets[1], sets, 2))
       ELSE {<<>>}

\* Faulty variant: an empty query answered with every document of the index
query_empty_is_all(self, words) ==
    IF Len(words) > 0
    THEN LET sets == [i \in 1..Len(words) |-> WordSet(self, words[i])]
         IN list_of_set(Reduce(sets[1], sets, 2))
    ELSE list_of_set(UNION {Range(self.items[i].value) : i \in 1..Len(self.items)})

\* the possible return values of query(words): list(result_set) in any order
query(self, words) ==
    IF Len(words) > 0
    THEN LET sets == [i \in 1..Len(words) |-> WordSet(self, words[i])]
         IN list_of_set(Reduce(sets[1], sets, 2))
    ELSE {<<>>}

-----------------------------------------------------------------------------
(* process_queries, for queries given as a list of word lists (with a text   *)
(* stream each line would be split into its words first).  The result is    *)
(* the exception that leaves it ("" when it returns), the list returned and  *)
(* what the load printed on stderr.                                          *)

\* Faulty variant: each answer put in front of the answers so far
RECURSIVE AnswersReversed(_, _, _)
AnswersReversed(index, queries, i) ==
    IF i > Len(queries) THEN {<<>>}
    ELSE {rest \o <<documents_ids>> :
            documents_ids \in query(index, queries[i]),
            rest \in AnswersReversed(index, queries, i + 1)}

\* the loop over queries: doc_ans, one answer appended for each query
RECURSIVE Answers(_, _, _)
Answers(index, queries, i) ==
    IF i > Len(queries) THEN {<<>>}
    ELSE {<<documents_ids>> \o rest :
            documents_ids \in query(index, queries[i]),
            rest \in Answers(index, queries, i + 1)}

\* the possible outcomes of process_queries(inverted_index_filepath, queries, strategy)
process_queries(inverted_index_filepath, queries, strategy, fs) ==
    UNION {IF inverted_index_loaded.raised # ""
           THEN {[raised |-> inverted_index_loaded.raised,
                  stderr |-> inverted_index_loaded.stderr, ret |-> <<>>]}
           ELSE {[raised |-> "", stderr |-> inverted_index_loaded.stderr, ret |-> doc_ans] :
                    doc_ans \in Answers(inverted_index_loaded.ret, queries, 1)} :
           inverted_index_loaded \in {load(inverted_index_filepath, strategy, fs)}}

-----------------------------------------------------------------------------
(* Inputs *)

Texts == SeqsUpTo(Alphabet, MaxTextLen)

\* dicts with the keys of `ids` in every order and values from `values`
DictsOver(keys, values) ==
    UNION {{[i \in 1..Len(ks) |-> [key |-> ks[i], value |-> vs[i]]] :
                vs \in [1..Len(ks) -> values]} :
           ks \in UNION {Perms(K) : K \in SUBSET keys}}

\* document mappings for the builder alone: every text up to MaxTextLen
Corpora == DictsOver(DocIds, Texts)

\* "a", "a b", " a"
SessionTexts == {<<97>>, <<97, 32, 98>>, <<32, 97>>}

\* document mappings of a session with files: one or two documents
SessionCorpora == {d \in DictsOver(SessionDocIds, SessionTexts) : Len(d) <= 2}

\* data handed to InvertedIndex(...) directly: empty and repeating posting lists
Postings == SeqsUpTo({1, 2}, 2)

ConstructData == DictsOver({<<97>>, <<98>>}, Postings)

SessionData == DictsOver({<<97>>}, {<<>>, <<1, 1>>})

\* query words: "a", "b", "" and "z", which no text holds
QueryWords == {<<97>>, <<98>>, <<>>, <<122>>}

Queries == SeqsUpTo(QueryWords, MaxQueryLen)

SessionQueries == SeqsUpTo({<<97>>, <<98>>}, MaxQueryLen)

\* the queries of a batch: [], ["a"], ["a", "b"]
BatchQueries == {<<>>, <<<<97>>>>, <<<<97>>, <<98>>>>}

\* document mappings whose index is persisted for batches
BatchCorpora == DictsOver(DocIds, SessionTexts)

Batches == SeqsUpTo(BatchQueries, MaxBatchLen)

\* the batches of a session with every other call:
\* [], [["a"]], [["a", "b"], ["a"]]
SessionBatches == {<<>>, <<<<<<97>>>>>>, <<<<<<97>>, <<98>>>>, <<<<97>>>>>>}

-----------------------------------------------------------------------------
(* State.  The model follows one InvertedIndex instance from its             *)
(* construction (by build_inverted_index or by InvertedIndex(data)) through  *)
(* its queries, dumps and the loads of what it dumped.                       *)

NoInstance == [type |-> "none", items |-> <<>>]

Call(name) ==
    [name |-> name, filepath |-> "", strategy |-> "", words |-> <<>>,
     queries |-> <<>>, documents |-> <<>>, raised |-> "", stderr |-> NoStderr, ret |-> <<>>]

Init ==
    /\ inverted_index = NoInstance
    /\ files = [p \in Paths |-> NoFile]
    /\ op = Call("init")

\* build_inverted_index(documents)
Build(documents) ==
    /\ inverted_index = NoInstance
    /\ \E index \in build_inverted_index(documents) :
        /\ inverted_index' = index
        /\ op' = [Call("build") EXCEPT !.documents = documents, !.ret = index]
    /\ UNCHANGED files

\* InvertedIndex(data)
Construct(index) ==
    /\ inverted_index = NoInstance
    /\ inverted_index' = index
    /\ op' = [Call("construct") EXCEPT !.ret = index]
    /\ UNCHANGED files

\* Faulty variant: a query that enters the words it does not find into the index
QueryInserting(words) ==
    /\ inverted_index # NoInstance
    /\ \E ret \in query(inverted_index, words) :
        op' = [Call("query") EXCEPT !.words = words, !.ret = ret]
    /\ inverted_index' =
          IF inverted_index.type = "dict"
             /\ \E k \in 1..Len(words) : ~DictHas(inverted_index.items, words[k])
          THEN InvertedIndex(DictSet(inverted_index.items,
                  words[CHOOSE k \in 1..Len(words) :
                            ~DictHas(inverted_index.items, words[k])], <<>>))
          ELSE inverted_index
    /\ UNCHANGED files

\* inverted_index.query(words)
Query(words) ==
    /\ inverted_index # NoInstance
    /\ \E ret \in query(inverted_index, words) :
        op' = [Call("query") EXCEPT !.words = words, !.ret = ret]
    /\ UNCHANGED <<inverted_index, files>>

\* inverted_index.dump(filepath, strategy)
Dump(filepath, strategy) ==
    /\ inverted_index # NoInstance
    /\ \E r \in {dump(inverted_index, filepath, strategy, files)} :
          /\ files' = r.files
          /\ op' = [Call("dump") EXCEPT !.filepath = filepath, !.strategy = strategy,
                                        !.raised = r.raised, !.stderr = r.stderr]
    /\ UNCHANGED inverted_index

\* InvertedIndex.load(filepath, strategy)
Load(filepath, strategy) ==
    /\ \E r \in {load(filepath, strategy, files)} :
          op' = [Call("load") EXCEPT !.filepath = filepath, !.strategy = strategy,
                                     !.raised = r.raised, !.stderr = r.stderr,
                                     !.ret = r.ret]
    /\ UNCHANGED <<inverted_index, files>>

\* process_queries(inverted_index_filepath, queries, strategy)
ProcessQueries(inverted_index_filepath, queries, strategy) ==
    /\ \E r \in process_queries(inverted_index_filepath, queries, strategy, files) :
        op' = [Call("process_queries") EXCEPT !.filepath = inverted_index_filepath,
                                              !.strategy = strategy,
                                              !.queries = queries,
                                              !.raised = r.raised, !.stderr = r.stderr,
                                              !.ret = r.ret]
    /\ UNCHANGED <<inverted_index, files>>

\* The environment cuts short a file that a struct dump wrote to its end:
\* only its first n bytes remain
Truncate(filepath, n) ==
    /\ files[filepath].exists
    /\ files[filepath].origin = "struct"
    /\ files[filepath].complete
    /\ n < Len(files[filepath].bytes)
    /\ files' = [files EXCEPT ![filepath].bytes = SubSeq(@, 1, n), ![filepath].cut = TRUE]
    /\ op' = [Call("truncate") EXCEPT !.filepath = filepath]
    /\ UNCHANGED inverted_index

Next ==
    \/ \E documents \in SessionCorpora : Build(documents)
    \/ \E data \in SessionData : Construct(InvertedIndex(data))
    \/ Construct(InvertedIndexOfSet)
    \/ \E words \in SessionQueries : Query(words)
    \/ \E filepath \in Paths, strategy \in Strategies : Dump(filepath, strategy)
    \/ \E filepath \in Paths, strategy \in Strategies : Load(filepath, strategy)
    \/ \E filepath \in Paths, queries \in SessionBatches, strategy \in Strategies :
          ProcessQueries(filepath, queries, strategy)
    \/ \E filepath \in Paths :
          \E n \in 0..Len(files[filepath].bytes) : Truncate(filepath, n)

Spec == Init /\ [][Next]_vars

\* The builder alone, on every document mapping of Corpora
NextBuild == \E documents \in Corpora \cup SessionCorpora : Build(documents)

SpecBuild == Init /\ [][NextBuild]_vars

\* Construction and queries alone, on every index of ConstructData and every query
NextQuery ==
    \/ \E documents \in SessionCorpora : Build(documents)
    \/ \E data \in ConstructData : Construct(InvertedIndex(data))
    \/ Construct(InvertedIndexOfSet)
    \/ \E words \in Queries : Query(words)

SpecQuery == Init /\ [][NextQuery]_vars

\* Batches of queries alone, on the files of a session and every batch of Batches
NextBatch ==
    \/ \E documents \in BatchCorpora : Build(documents)
    \/ \E data \in SessionData : Construct(InvertedIndex(data))
    \/ \E filepath \in Paths, strategy \in Strategies : Dump(filepath, strategy)
    \/ \E filepath \in Paths, queries \in Batches, strategy \in Strategies :
          ProcessQueries(filepath, queries, strategy)

SpecBatch == Init /\ [][NextBatch]_vars

-----------------------------------------------------------------------------
(* Vocabulary of the properties *)

\* The document identifiers of a term's posting list (none for an absent term)
PostingSet(index, term) ==
    UNION {Range(index.items[i].value) :
           i \in {j \in 1..Len(index.items) : index.items[j].key = term}}

AllDocIds(index) == UNION {Range(index.items[i].value) : i \in 1..Len(index.items)}

\* Index equality: the same terms and, for every term, the same identifiers
IndexEqual(x, y) ==
    /\ Keys(x.items) = Keys(y.items)
    /\ \A t \in Keys(x.items) : PostingSet(x, t) = PostingSet(y, t)

\* An index that build_inverted_index can return
IsBuilt(index) == \E documents \in SessionCorpora : index \in build_inverted_index(documents)

\* The file the last call named was written by a dump with the call's strategy
\* and not touched since
DumpedWithSameStrategy ==
    /\ CanOpen(op.filepath)
    /\ files[op.filepath].origin = op.strategy
    /\ ~files[op.filepath].cut

-----------------------------------------------------------------------------
\* C1 as stated: after dump(I, path, strategy) of a built index I (of documents
\* with non-negative identifiers) to a path that can be opened,
\* load(path, strategy) returns an index equal to I, for both strategies and
\* every such index.
C1_RoundTripEveryIndex ==
    (/\ op.name = "load"
     /\ DumpedWithSameStrategy
     /\ IsBuilt(inverted_index)
     /\ \A id \in AllDocIds(inverted_index) : id >= 0)
        => (op.raised = "" /\ IndexEqual(op.ret, inverted_index))

\* C1 amended: after dump(I, path, strategy) of an index I to a path that can be
\* opened, load(path, strategy) returns an index equal to I (same terms, same
\* identifiers per term) with the json strategy, and with the struct strategy
\* when every document identifier of I is in 0..65535.
C1_RoundTrip ==
    (/\ op.name = "load"
     /\ DumpedWithSameStrategy
     /\ inverted_index.type = "dict"
     /\ (op.strategy = "struct" => \A id \in AllDocIds(inverted_index) : FitsH(id)))
        => (op.raised = "" /\ IndexEqual(op.ret, inverted_index))

\* C1 witness: a struct file of a built index of two terms, one of them with two
\* documents (one the largest "H" value), loaded back equal
C1_Witness ==
    /\ op.name = "load"
    /\ op.strategy = "struct"
    /\ DumpedWithSameStrategy
    /\ op.raised = ""
    /\ Len(inverted_index.items) >= 2
    /\ \E t \in Keys(inverted_index.items) :
          {1, USHORT_MAX} \subseteq PostingSet(inverted_index, t)
    /\ IndexEqual(op.ret, inverted_index)

-----------------------------------------------------------------------------
\* C2: for a non-empty list of terms, query returns, as a set, exactly the
\* identifiers that are in the posting list of every term of the list, and
\* returns none of them twice.
C2_QueryIsIntersection ==
    (op.name = "query" /\ Len(op.words) > 0)
        => /\ Range(op.ret) =
                {id \in AllDocIds(inverted_index) :
                    \A k \in 1..Len(op.words) : id \in PostingSet(inverted_index, op.words[k])}
           /\ NoDup(op.ret)

\* C2 witness: a query of two different terms whose answer is not empty and is
\* smaller than the first term's posting list
C2_Witness ==
    /\ op.name = "query"
    /\ Len(op.words) = 2
    /\ op.words[1] # op.words[2]
    /\ op.ret # <<>>
    /\ Range(op.ret) # PostingSet(inverted_index, op.words[1])

\* C3: a query with a term that is absent from the index, or present with an
\* empty posting list, returns the empty list, wherever the term stands and
\* whatever the other terms are.
C3_UnknownTermZeroes ==
    (/\ op.name = "query"
     /\ \E k \in 1..Len(op.words) : PostingSet(inverted_index, op.words[k]) = {})
        => op.ret = <<>>

\* C3 witness: a first term with documents, a second term that is absent,
\* an empty answer
C3_Witness ==
    /\ op.name = "query"
    /\ Len(op.words) = 2
    /\ PostingSet(inverted_index, op.words[1]) # {}
    /\ op.words[2] \notin Keys(inverted_index.items)
    /\ op.ret = <<>>

\* C4: the empty query returns the empty list on every index, never the set of
\* all documents.
C4_EmptyQuery == (op.name = "query" /\ op.words = <<>>) => op.ret = <<>>

\* C4 witness: the empty query on an index that holds documents
C4_Witness ==
    /\ op.name = "query"
    /\ op.words = <<>>
    /\ AllDocIds(inverted_index) # {}
    /\ op.ret = <<>>

-----------------------------------------------------------------------------
(* The tokens of a text, stated without the scan: a token is a maximal run   *)
(* of word characters between separators or the ends of the text; the empty  *)
(* token arises at the start of a text that begins with a separator (or is   *)
(* empty) and at the end of a text that ends with one.                       *)

IsToken(t, s) ==
    \E i \in 1..Len(s) + 1 : \E j \in (i - 1)..Len(s) :
        /\ SubSeq(s, i, j) = t
        /\ \A k \in i..j : IsWordChar(s[k])
        /\ i = 1 \/ ~IsWordChar(s[i - 1])
        /\ j = Len(s) \/ ~IsWordChar(s[j + 1])
        /\ j = i - 1 => (i = 1 \/ i = Len(s) + 1)

\* every term a text of the model can hold, and the terms of the index
TermsToTry(index) ==
    Keys(index.items) \cup SeqsUpTo({c \in Alphabet : IsWordChar(c)}, MaxTextLen + 1)

\* C5: build_inverted_index puts document d in the posting list of term t if
\* and only if t is a token of d's text (the empty token of a leading or
\* trailing separator included), and the index has no term without a document.
C5_BuildSoundComplete ==
    op.name = "build"
        => /\ \A t \in TermsToTry(inverted_index) : \A id \in DocIds \cup SessionDocIds :
                id \in PostingSet(inverted_index, t)
                    <=> \E n \in 1..Len(op.documents) :
                            /\ op.documents[n].key = id
                            /\ IsToken(t, op.documents[n].value)
           /\ \A i \in 1..Len(inverted_index.items) : inverted_index.items[i].value # <<>>

\* C5 witness: two documents, a term they share, a term of one of them alone
\* and the empty term of a leading or trailing separator
C5_Witness ==
    /\ op.name = "build"
    /\ Len(op.documents) = 2
    /\ \E t \in Keys(inverted_index.items) : Cardinality(PostingSet(inverted_index, t)) = 2
    /\ \E t \in Keys(inverted_index.items) :
          t # <<>> /\ Cardinality(PostingSet(inverted_index, t)) = 1
    /\ PostingSet(inverted_index, <<>>) # {}

\* C6: no posting list of a built index holds a document identifier twice.
C6_PostingsUnique ==
    op.name = "build"
        => \A i \in 1..Len(inverted_index.items) : NoDup(inverted_index.items[i].value)

\* C6 witness: a term that occurs twice in the text of one document and has
\* that document once in its posting list
C6_Witness ==
    /\ op.name = "build"
    /\ \E n \in 1..Len(op.documents) : \E t \in Keys(inverted_index.items) :
          /\ Cardinality({k \in 1..Len(re_split(op.documents[n].value)) :
                              re_split(op.documents[n].value)[k] = t}) >= 2
          /\ Cardinality({k \in 1..Len(DictGet(inverted_index.items, t)) :
                              DictGet(inverted_index.items, t)[k] = op.documents[n].key}) = 1

-----------------------------------------------------------------------------
\* C7: a struct dump (to a path that can be opened) of an index that holds a
\* document identifier >= 65536 ends with an exception at its caller; it never
\* returns after writing the identifier wrapped to 16 bits.
C7_StructRangeCheck ==
    (/\ op.name = "dump"
     /\ op.strategy = "struct"
     /\ CanOpen(op.filepath)
     /\ \E id \in AllDocIds(inverted_index) : id > USHORT_MAX)
        => /\ op.raised # ""
           /\ ~files[op.filepath].complete

\* C7 witness: such a dump of an index that also holds identifiers that fit
C7_Witness ==
    /\ op.name = "dump"
    /\ op.strategy = "struct"
    /\ CanOpen(op.filepath)
    /\ {USHORT_MAX, USHORT_MAX + 1} \subseteq AllDocIds(inverted_index)
    /\ op.raised = "struct.error"

\* C8: a struct load of a file that a struct dump wrote to its end and that was
\* truncated afterwards (to any shorter length) raises; it returns no index.
C8_TruncatedStructFails ==
    (/\ op.name = "load"
     /\ op.strategy = "struct"
     /\ CanOpen(op.filepath)
     /\ files[op.filepath].origin = "struct"
     /\ files[op.filepath].complete
     /\ files[op.filepath].cut)
        => op.raised = "struct.error"

\* C8 witness: the file of an index of two terms truncated right after its
\* header, and the load of it raising
C8_Witness ==
    /\ op.name = "load"
    /\ op.strategy = "struct"
    /\ files[op.filepath].origin = "struct"
    /\ files[op.filepath].complete
    /\ files[op.filepath].cut
    /\ Len(inverted_index.items) >= 2
    /\ files[op.filepath].bytes = StructHead(inverted_index.items)
    /\ op.raised = "struct.error"

\* The last call named a path at which no file can be opened for reading
SourceMissing == ~(CanOpen(op.filepath) /\ files[op.filepath].exists)

\* C9 as stated: load of a path that does not exist is not returned to the
\* caller as an ordinary empty index.
C9_NotFoundDistinct ==
    (op.name = "load" /\ SourceMissing)
        => ~(op.raised = "" /\ op.ret = InvertedIndex(<<>>))

\* C9 amended: load of a path that does not exist returns an ordinary empty
\* index to its caller, the value a successful load of an index with no terms
\* returns; it differs from that load only by the line "<path> not found!"
\* on stderr, which a load of a file that exists never prints.
C9_NotFoundReturnsEmpty ==
    op.name = "load"
        => /\ SourceMissing
                => /\ op.raised = ""
                   /\ op.ret = InvertedIndex(<<>>)
                   /\ op.stderr = <<op.filepath, " not found!">>
           /\ ~SourceMissing => op.stderr = NoStderr

\* C9 witness: a load of a missing path in a session whose index has terms,
\* returning the empty index
C9_Witness ==
    /\ op.name = "load"
    /\ SourceMissing
    /\ inverted_index.items # <<>>
    /\ op.raised = ""
    /\ op.ret = InvertedIndex(<<>>)

\* The in-memory value is one json.dump cannot serialize
NotSerializable == inverted_index.type # "dict"

\* C10 as stated: when dump cannot open the destination, or the value is not
\* serializable, dump gives its caller a failure.
C10_WriteFailureReported ==
    (op.name = "dump" /\ (~CanOpen(op.filepath) \/ NotSerializable))
        => op.raised # ""

\* C10 amended: when open() raises FileNotFoundError for the destination, or
\* json.dump raises TypeError for the value, dump prints "Input valid filepath"
\* on stderr and returns None to its caller with no complete index persisted
\* at the destination; a struct dump of a value that is no dict raises
\* AttributeError.
C10_WriteFailureSwallowed ==
    op.name = "dump"
        => /\ (~CanOpen(op.filepath) \/ (NotSerializable /\ op.strategy = "json"))
                => /\ op.raised = ""
                   /\ op.stderr = <<"Input valid filepath">>
                   /\ files[op.filepath].bytes = <<>>
                   /\ ~files[op.filepath].complete
           /\ (CanOpen(op.filepath) /\ NotSerializable /\ op.strategy = "struct")
                => /\ op.raised = "AttributeError"
                   /\ ~files[op.filepath].complete

\* C10 witness: a dump of an index with terms to a path that cannot be opened,
\* returning normally with nothing written
C10_Witness ==
    /\ op.name = "dump"
    /\ ~CanOpen(op.filepath)
    /\ inverted_index.items # <<>>
    /\ op.raised = ""
    /\ \A p \in Paths : ~files[p].exists

-----------------------------------------------------------------------------
\* The file the last call named holds the index of the session, written to its
\* end by a dump with the call's strategy
PersistedWithSameStrategy == DumpedWithSameStrategy /\ files[op.filepath].complete

\* The answer of one query by the contract of query: the identifiers in the
\* posting list of every term, none for the empty query
AnswerSet(index, words) ==
    IF words = <<>> THEN {}
    ELSE {id \in AllDocIds(index) :
            \A k \in 1..Len(words) : id \in PostingSet(index, words[k])}

\* C11: on a persisted index, process_queries returns one result for each
\* query of the batch, in the order of the queries, and the i-th result is, as
\* a set, the answer of the i-th query alone on the index.
C11_BatchAnswers ==
    (op.name = "process_queries" /\ PersistedWithSameStrategy)
        => /\ op.raised = ""
           /\ Len(op.ret) = Len(op.queries)
           /\ \A i \in 1..Len(op.queries) :
                Range(op.ret[i]) = AnswerSet(inverted_index, op.queries[i])

\* C11 witness: a batch of two queries on a struct file whose answers are
\* different and not empty
C11_Witness ==
    /\ op.name = "process_queries"
    /\ op.strategy = "struct"
    /\ PersistedWithSameStrategy
    /\ Len(op.queries) = 2
    /\ Len(op.ret) = 2
    /\ op.ret[1] # <<>>
    /\ op.ret[2] # <<>>
    /\ Range(op.ret[1]) # Range(op.ret[2])

-----------------------------------------------------------------------------
\* C12: a call of query, dump or process_queries leaves the term-to-posting-list
\* mapping of the index as it was (same terms, same identifiers per term, in
\* the same order).
C12_IndexReadOnly ==
    [][op'.name \in {"query", "dump", "process_queries"}
          => inverted_index' = inverted_index]_vars

\* C12 witness: a batch answered from the file the index was dumped to, the
\* index holding terms
C12_Witness ==
    /\ op.name = "process_queries"
    /\ PersistedWithSameStrategy
    /\ op.raised = ""
    /\ Len(op.queries) > 0
    /\ Len(inverted_index.items) >= 2

\* the documents in another iteration order
Reordered(documents) ==
    {[i \in 1..Len(documents) |-> documents[order[i]]] : order \in Perms(1..Len(documents))}

\* C13: every build of the same document mapping, in whatever order its
\* documents are iterated, returns an index equal to the one built (same terms,
\* same identifiers per term).
C13_BuildIdempotent ==
    op.name = "build"
        => \A documents \in Reordered(op.documents) :
              \A index \in build_inverted_index(documents) :
                  IndexEqual(index, inverted_index)

\* C13 witness: two documents with a common term, whose build in the other
\* order is an equal index with its terms in another order
C13_Witness ==
    /\ op.name = "build"
    /\ Len(op.documents) = 2
    /\ \E t \in Keys(inverted_index.items) : Cardinality(PostingSet(inverted_index, t)) = 2
    /\ \E index \in build_inverted_index(<<op.documents[2], op.documents[1]>>) :
          /\ IndexEqual(index, inverted_index)
          /\ \E i \in 1..Len(index.items) : index.items[i].key # inverted_index.items[i].key

\* The file the last call named is what a struct dump of the session's dict
\* left when it stopped early
LeftByFailedStructDump ==
    /\ CanOpen(op.filepath)
    /\ files[op.filepath].exists
    /\ files[op.filepath].origin = "struct"
    /\ ~files[op.filepath].complete
    /\ inverted_index.type = "dict"

\* C14: a struct dump that raises struct.error leaves at the destination the
\* 4-byte length prefix and the whole header and nothing else (no identifier
\* byte, nothing of an earlier content), and a struct load of that destination
\* raises struct.error and returns no index.
C14_FailedDumpLeavesHeader ==
    /\ (op.name = "dump" /\ op.raised = "struct.error")
          => LET b == files[op.filepath].bytes
             IN /\ files[op.filepath].exists
                /\ Len(b) >= 4
                /\ unpack_I(SubSeq(b, 1, 4)) = Len(b) - 4
                /\ json_loads_pairs(SubSeq(b, 5, Len(b))).ok
                /\ json_loads_pairs(SubSeq(b, 5, Len(b))).val =
                      [i \in 1..Len(inverted_index.items) |->
                          <<inverted_index.items[i].key,
                            Len(inverted_index.items[i].value)>>]
    /\ (op.name = "load" /\ op.strategy = "struct" /\ LeftByFailedStructDump)
          => op.raised = "struct.error"

\* C14 witness: the struct load of what the failed dump of an index of two
\* terms left, raising
C14_Witness ==
    /\ op.name = "load"
    /\ op.strategy = "struct"
    /\ LeftByFailedStructDump
    /\ Len(inverted_index.items) >= 2
    /\ Len(files[op.filepath].bytes) > 4
    /\ op.raised = "struct.error"

\* C15: the set of identifiers a non-empty query returns depends only on the
\* set of its terms: every list of the same terms, in another order or with
\* terms repeated, has the same answer.
C15_QueryDependsOnTermSet ==
    (op.name = "query" /\ Len(op.words) > 0)
        => \A words \in Queries :
              (Len(words) > 0 /\ Range(words) = Range(op.words))
                  => \A ret \in query(inverted_index, words) : Range(ret) = Range(op.ret)

\* C15 witness: a query of two different terms with different posting lists,
\* its answer not empty
C15_Witness ==
    /\ op.name = "query"
    /\ Len(op.words) = 2
    /\ op.words[1] # op.words[2]
    /\ PostingSet(inverted_index, op.words[1]) # PostingSet(inverted_index, op.words[2])
    /\ op.ret # <<>>

====
